---- MODULE Spec2Model ----
(***************************************************************************)
(* Model of deref-rs: the annotation-based generator                       *)
(* (deref-derives/src/deref.rs, lib.rs), the pattern-based generator       *)
(* (deref/src/macros.rs) and the behaviour of the accessors they emit      *)
(* (deref/examples/hello.rs, deref/benches/basic_benchmark.rs).            *)
(***************************************************************************)
EXTENDS Integers, Sequences, FiniteSets, TLC

VARIABLES pc, input, invocation, out, obj, last

vars == <<pc, input, invocation, out, obj, last>>

(***************************************************************************)
(* Bounds of the model.                                                    *)
(***************************************************************************)
\* most fields in a field list
MaxFields == 3
\* most lifetimes in a generic group of a macro invocation
MaxLts == 2
\* most type parameters in a generic group of a macro invocation
MaxParams == 2
\* i32 values an object's field takes: 0..MaxVal
MaxVal == 1

(***************************************************************************)
(* Declarations: syn::DeriveInput as the derive entry points parse it.     *)
(***************************************************************************)
\* identifiers of named fields, by position in the declaration
FieldName == <<"value", "inner", "extra", "more", "last">>
\* text of a positional index, Index::from(i) for i = 0, 1, ...
Digits == <<"0", "1", "2", "3", "4">>
\* declared field types: a primitive, and a wrapper that itself derives
\* DerefMut onto an i32 (Hello of hello.rs)
Types == {"i32", "Hello"}
\* attribute paths a field may carry
AttrNames == {"deref", "deref_mut", "auto_ref"}
\* the attribute lists of a field: none, one attribute, or both markers
AttrSets == {{}} \cup {{a} : a \in AttrNames} \cup {{"deref", "deref_mut"}}
\* the name of the declared type
TypeName == "MyType"

NoGenerics == [params |-> <<>>, where |-> FALSE]
OneGeneric == [params |-> <<[name |-> "T", bound |-> "Send"]>>, where |-> TRUE]
GenericsSet == {NoGenerics, OneGeneric}

\* a field list of n fields: the identifiers of named fields are distinct, as
\* rustc requires; positional fields have none
FieldListOf(shape, n, tys, at) ==
    [i \in 1..n |-> [ident |-> IF shape = "Named" THEN FieldName[i] ELSE "None",
                     ty |-> tys[i], attrs |-> at[i]]]

\* the shapes of declaration syn parses: Data::Struct carries any field list;
\* Data::Enum is represented by the field list of its first variant,
\* Data::Union by its (named) field list
WellFormed(data, shape, g, n) ==
    /\ shape = "Unit" => n = 0
    /\ data = "Enum" => g = NoGenerics
    /\ data = "Union" => (g = NoGenerics /\ shape = "Named")

\* inp is one of the declarations of at most MaxFields fields
IsDeriveInput(inp) ==
    \E data \in {"Struct", "Enum", "Union"}, shape \in {"Named", "Unnamed", "Unit"},
       g \in GenericsSet, n \in 0..MaxFields :
        /\ WellFormed(data, shape, g, n)
        /\ \E tys \in [1..n -> Types], at \in [1..n -> AttrSets] :
              inp = [data |-> data, ident |-> TypeName, generics |-> g,
                     fields |-> [shape |-> shape, list |-> FieldListOf(shape, n, tys, at)]]

NoInput == [data |-> "None", ident |-> "", generics |-> NoGenerics,
            fields |-> [shape |-> "Unit", list |-> <<>>]]

(***************************************************************************)
(* deref-derives/src/deref.rs                                              *)
(***************************************************************************)
Ok(tokens) == [ok |-> TRUE, tokens |-> tokens, msg |-> "", span |-> "", at |-> 0]
\* syn::Error::new_spanned(what, msg); at is the 0-based field position when
\* the span is a field
Err(msg, span, at) == [ok |-> FALSE, tokens |-> <<>>, msg |-> msg, span |-> span, at |-> at]

NoOut == [ok |-> FALSE, tokens |-> <<>>, msg |-> "not run", span |-> "", at |-> 0]

\* has_attribute taking any attribute of the field for the marker
MutHasAttribute(attrs, name) == attrs # {}

\* attrs.iter().any(|attr| attr.path().is_ident(name))
has_attribute(attrs, name) == \E a \in attrs : a = name

\* DerefField::to_tokens counting positions among the marked fields only
MutDerefFieldTokens(shape, ident, index) ==
    IF shape = "Named" THEN ident ELSE Digits[1]

\* DerefField::to_tokens: the identifier, or Index::from(index)
DerefFieldTokens(shape, ident, index) ==
    IF shape = "Named" THEN ident ELSE Digits[index + 1]

NoField == [some |-> FALSE, field |-> "", ty |-> ""]

\* the loop of find_deref_field without the is_some() test: the last marked
\* field wins
RECURSIVE MutScanFields(_, _, _, _, _)
MutScanFields(shape, list, attr_name, index, acc) ==
    IF index >= Len(list)
    THEN IF acc.some
         THEN [ok |-> TRUE, field |-> acc.field, ty |-> acc.ty, msg |-> "", span |-> "", at |-> 0]
         ELSE [ok |-> FALSE, field |-> "", ty |-> "", msg |-> "Must have one field marked",
               span |-> "fields", at |-> 0]
    ELSE IF has_attribute(list[index + 1].attrs, attr_name)
         THEN MutScanFields(shape, list, attr_name, index + 1,
                  [some |-> TRUE,
                   field |-> DerefFieldTokens(shape, list[index + 1].ident, index),
                   ty |-> list[index + 1].ty])
         ELSE MutScanFields(shape, list, attr_name, index + 1, acc)

\* the loop of find_deref_field over fields i.., index 0-based; acc is
\* (deref_field, field_type)
RECURSIVE ScanFields(_, _, _, _, _)
ScanFields(shape, list, attr_name, index, acc) ==
    IF index >= Len(list)
    THEN IF acc.some
         THEN [ok |-> TRUE, field |-> acc.field, ty |-> acc.ty, msg |-> "", span |-> "", at |-> 0]
         ELSE [ok |-> FALSE, field |-> "", ty |-> "", msg |-> "Must have one field marked",
               span |-> "fields", at |-> 0]
    ELSE LET field == list[index + 1] IN
         IF has_attribute(field.attrs, attr_name)
         THEN IF acc.some
              THEN [ok |-> FALSE, field |-> "", ty |-> "", msg |-> "Only one field can be marked",
                    span |-> "field", at |-> index]
              ELSE IF shape = "Named" /\ field.ident = "None"
                   THEN [ok |-> FALSE, field |-> "", ty |-> "", msg |-> "Field must have a name",
                         span |-> "field", at |-> index]
                   ELSE ScanFields(shape, list, attr_name, index + 1,
                            [some |-> TRUE,
                             field |-> DerefFieldTokens(shape, field.ident, index),
                             ty |-> field.ty])
         ELSE ScanFields(shape, list, attr_name, index + 1, acc)

find_deref_field(fields, attr_name) ==
    IF fields.shape = "Unit"
    THEN [ok |-> FALSE, field |-> "", ty |-> "", msg |-> "Unit structs are not supported",
          span |-> "fields", at |-> 0]
    ELSE ScanFields(fields.shape, fields.list, attr_name, 0, NoField)

\* generics.split_for_impl(): the parameters with their bounds, the parameters
\* alone, the where clause
RECURSIVE ImplParams(_, _)
ImplParams(params, i) ==
    IF i > Len(params) THEN <<>>
    ELSE (IF i > 1 THEN <<",">> ELSE <<>>)
         \o <<params[i].name>>
         \o (IF params[i].bound # "" THEN <<":", params[i].bound>> ELSE <<>>)
         \o ImplParams(params, i + 1)
RECURSIVE TyParams(_, _)
TyParams(params, i) ==
    IF i > Len(params) THEN <<>>
    ELSE (IF i > 1 THEN <<",">> ELSE <<>>) \o <<params[i].name>> \o TyParams(params, i + 1)
\* split_for_impl printing the angle brackets of an empty parameter list
MutSplitForImpl(generics) ==
    [impl_generics |-> <<"<">> \o ImplParams(generics.params, 1) \o <<">">>,
     ty_generics |-> <<"<">> \o TyParams(generics.params, 1) \o <<">">>,
     where_clause |-> generics.where]

split_for_impl(generics) ==
    [impl_generics |-> IF generics.params = <<>> THEN <<>>
                       ELSE <<"<">> \o ImplParams(generics.params, 1) \o <<">">>,
     ty_generics |-> IF generics.params = <<>> THEN <<>>
                     ELSE <<"<">> \o TyParams(generics.params, 1) \o <<">">>,
     where_clause |-> generics.where]

\* one emitted trait implementation
Impl(trait, impl_generics, name, ty_generics, where_clause, target, body, field) ==
    [trait |-> trait, impl_generics |-> impl_generics, name |-> name,
     ty_generics |-> ty_generics, where_clause |-> where_clause,
     target |-> target, body |-> body, field |-> field]

attr_name_of(is_mut) == IF is_mut THEN "deref_mut" ELSE "deref"

\* generate without the is_mut branch: the read implementation alone
MutGenerate(inp, is_mut, found) ==
    IF ~found.ok
    THEN Err(found.msg, found.span, found.at)
    ELSE Ok(<<Impl("Deref", split_for_impl(inp.generics).impl_generics, inp.ident,
                   split_for_impl(inp.generics).ty_generics,
                   split_for_impl(inp.generics).where_clause, found.ty, "&self.", found.field)>>)

\* lines 24-58 of impl_deref_trait: found is the result of find_deref_field
generate(inp, is_mut, found) ==
    IF ~found.ok
    THEN Err(found.msg, found.span, found.at)
    ELSE IF is_mut
    THEN Ok(<<Impl("Deref", split_for_impl(inp.generics).impl_generics, inp.ident,
                   split_for_impl(inp.generics).ty_generics,
                   split_for_impl(inp.generics).where_clause, found.ty, "&self.", found.field),
              Impl("DerefMut", split_for_impl(inp.generics).impl_generics, inp.ident,
                   split_for_impl(inp.generics).ty_generics,
                   split_for_impl(inp.generics).where_clause, "Self::Target", "&mut self.",
                   found.field)>>)
    ELSE Ok(<<Impl("Deref", split_for_impl(inp.generics).impl_generics, inp.ident,
                   split_for_impl(inp.generics).ty_generics,
                   split_for_impl(inp.generics).where_clause, found.ty, "&self.", found.field)>>)

\* impl_deref_trait without the match on input.data
MutImplDerefTrait(inp, is_mut) ==
    generate(inp, is_mut, find_deref_field(inp.fields, attr_name_of(is_mut)))

impl_deref_trait(inp, is_mut) ==
    IF inp.data # "Struct"
    THEN Err("can only be used on structs", "input", 0)
    ELSE generate(inp, is_mut, find_deref_field(inp.fields, attr_name_of(is_mut)))

(***************************************************************************)
(* Macro invocations: the token sequence between the parentheses of        *)
(* deref!( ... ) or deref_mut!( ... ).                                     *)
(***************************************************************************)
LifetimeName == <<"'a", "'b", "'c", "'d">>
ParamName == <<"T", "U", "V", "W">>
LifetimeToks == {LifetimeName[i] : i \in 1..Len(LifetimeName)}
IdentToks == {ParamName[i] : i \in 1..Len(ParamName)}
             \cup {FieldName[i] : i \in 1..Len(FieldName)}
             \cup Types \cup {TypeName, "Send"}

IsLifetime(t) == t \in LifetimeToks
IsIdent(t) == t \in IdentToks
\* what the ty fragment parser accepts here: a path type of one identifier
IsType(t) == t \in IdentToks

LtLists == {SubSeq(LifetimeName, 1, n) : n \in 0..MaxLts}
ParamLists ==
    UNION {{[i \in 1..n |-> [name |-> ParamName[i], bound |-> b[i]]] :
                b \in [1..n -> {"", "Send"}]} : n \in 0..MaxParams}

RECURSIVE JoinComma(_, _)
JoinComma(s, i) ==
    IF i > Len(s) THEN <<>>
    ELSE (IF i > 1 THEN <<",">> ELSE <<>>) \o <<s[i]>> \o JoinComma(s, i + 1)

RECURSIVE SourceParams(_, _)
SourceParams(params, i) ==
    IF i > Len(params) THEN <<>>
    ELSE (IF i > 1 THEN <<",">> ELSE <<>>)
         \o <<params[i].name>>
         \o (IF params[i].bound # "" THEN <<":", params[i].bound>> ELSE <<>>)
         \o SourceParams(params, i + 1)

\* a generic group as the caller writes it: the comma between the lifetimes
\* and the type parameters is the caller's choice
GroupSources ==
    {<<>>} \cup
    {<<"<">> \o JoinComma(l, 1) \o (IF c THEN <<",">> ELSE <<>>) \o SourceParams(p, 1) \o <<">">> :
        l \in LtLists, c \in BOOLEAN, p \in ParamLists}

FieldToks == {FieldName[1], Digits[1]}

\* toks is one of the invocations written with these groups, a target type
\* and a field token
IsInvocation(toks) ==
    \E g \in GroupSources, a \in GroupSources, t \in Types, f \in FieldToks :
        toks = (IF g = <<>> THEN <<>> ELSE g \o <<",">>) \o <<TypeName>> \o a
               \o <<",", t, ",", f>>

(***************************************************************************)
(* deref/src/macros.rs: the matcher of the one rule both macros share, and *)
(* their transcribers.                                                     *)
(***************************************************************************)
Tok(toks, i) == IF i >= 1 /\ i <= Len(toks) THEN toks[i] ELSE "<eof>"

\* $($lt:lifetime),+ with toks[i] a lifetime and acc the lifetimes bound so
\* far: a comma continues the list only when a lifetime follows it
RECURSIVE MatchLts(_, _, _)
MatchLts(toks, i, acc) ==
    IF Tok(toks, i + 1) = "," /\ IsLifetime(Tok(toks, i + 2))
    THEN MatchLts(toks, i + 2, Append(acc, toks[i]))
    ELSE [lts |-> Append(acc, toks[i]), pos |-> i + 1]

\* $($param:ident $(: $bound:tt)?),+ with toks[i] an identifier and acc the
\* parameters bound so far; with_bound is FALSE for $($param2:ident),+
RECURSIVE MatchParams(_, _, _, _)
MatchParams(toks, i, with_bound, acc) ==
    LET bounded == with_bound /\ Tok(toks, i + 1) = ":"
        p == [name |-> toks[i], bound |-> IF bounded THEN Tok(toks, i + 2) ELSE ""]
        after == IF bounded THEN i + 3 ELSE i + 1
    IN IF bounded /\ Tok(toks, i + 2) = "<eof>"
       THEN [ok |-> FALSE, params |-> <<>>, pos |-> i]
       ELSE IF Tok(toks, after) = ","
            THEN IF IsIdent(Tok(toks, after + 1))
                 THEN MatchParams(toks, after + 1, with_bound, Append(acc, p))
                 ELSE [ok |-> FALSE, params |-> <<>>, pos |-> after]
            ELSE [ok |-> TRUE, params |-> Append(acc, p), pos |-> after]

NoGroup(i) == [ok |-> TRUE, present |-> FALSE, lts |-> <<>>, params |-> <<>>, pos |-> i]

\* $( $($lt:lifetime),+ )? at toks[i]
GroupLts(toks, i) ==
    IF IsLifetime(Tok(toks, i)) THEN MatchLts(toks, i, <<>>) ELSE [lts |-> <<>>, pos |-> i]

\* $( , )? at toks[i]: the position after it
SkipComma(toks, i) == IF Tok(toks, i) = "," THEN i + 1 ELSE i

\* $( $($param:ident $(: $bound:tt)?),+ )? at toks[i]
GroupParams(toks, i, with_bound) ==
    IF IsIdent(Tok(toks, i)) THEN MatchParams(toks, i, with_bound, <<>>)
    ELSE [ok |-> TRUE, params |-> <<>>, pos |-> i]

\* the closing > after the lifetimes l and the parameters p
GroupClose(toks, l, p) ==
    [ok |-> p.ok /\ Tok(toks, p.pos) = ">", present |-> TRUE, lts |-> l.lts,
     params |-> p.params, pos |-> p.pos + 1]

GroupAfterLts(toks, l, with_bound) ==
    GroupClose(toks, l, GroupParams(toks, SkipComma(toks, l.pos), with_bound))

\* < $( $($lt:lifetime),+ )? $( , )? $( $($param:ident $(: $bound:tt)?),+ )? >
\* with toks[i] = "<"
MatchGroup(toks, i, with_bound) == GroupAfterLts(toks, GroupLts(toks, i + 1), with_bound)

\* $(< ... >)? at toks[i]
OptGroup(toks, i, with_bound) ==
    IF Tok(toks, i) = "<" THEN MatchGroup(toks, i, with_bound) ELSE NoGroup(i)

NoMatch == [ok |-> FALSE, gp |-> FALSE, lts |-> <<>>, params |-> <<>>, ty |-> "",
            ga |-> FALSE, lts2 |-> <<>>, params2 |-> <<>>, target |-> "", field |-> ""]

\* , $target:ty , $field:tt and the end of the invocation, after the generic
\* parameter group g, $ty at toks[t] and the generic argument group a
MatchRest(toks, g, t, a) ==
    IF /\ a.ok
       /\ Tok(toks, a.pos) = ","
       /\ IsType(Tok(toks, a.pos + 1))
       /\ Tok(toks, a.pos + 2) = ","
       /\ Tok(toks, a.pos + 3) # "<eof>"
       /\ Len(toks) = a.pos + 3
    THEN [ok |-> TRUE, gp |-> g.present, lts |-> g.lts, params |-> g.params, ty |-> toks[t],
          ga |-> a.present, lts2 |-> a.lts, params2 |-> a.params,
          target |-> toks[a.pos + 1], field |-> toks[a.pos + 3]]
    ELSE NoMatch

\* $ty:ident $(< ... >)? with $ty expected at toks[t]
MatchType(toks, g, t) ==
    IF IsIdent(Tok(toks, t)) THEN MatchRest(toks, g, t, OptGroup(toks, t + 1, FALSE))
    ELSE NoMatch

\* after $(< ... >,)?: the group, when present, is followed by a comma
MatchAfterParams(toks, g) ==
    IF ~g.ok THEN NoMatch
    ELSE IF ~g.present THEN MatchType(toks, g, 1)
    ELSE IF Tok(toks, g.pos) = "," THEN MatchType(toks, g, g.pos + 1)
    ELSE NoMatch

\* the matcher of macro_rules! deref and macro_rules! deref_mut
MatchInvocation(toks) == MatchAfterParams(toks, OptGroup(toks, 1, TRUE))

\* $($param $(: $bound)?),+
RECURSIVE ParamTokens(_, _)
ParamTokens(params, i) ==
    IF i > Len(params) THEN <<>>
    ELSE (IF i > 1 THEN <<",">> ELSE <<>>)
         \o <<params[i].name>>
         \o (IF params[i].bound # "" THEN <<":", params[i].bound>> ELSE <<>>)
         \o ParamTokens(params, i + 1)

\* $(< $( $($lt),+, )? $( $($param $(: $bound)?),+ )? >)?
GroupTokens(present, lts, params) ==
    IF ~present THEN <<>>
    ELSE <<"<">>
         \o (IF lts # <<>> THEN JoinComma(lts, 1) \o <<",">> ELSE <<>>)
         \o (IF params # <<>> THEN ParamTokens(params, 1) ELSE <<>>)
         \o <<">">>

\* a forwarding that leaves out the generic argument group of $ty
MutForwardTokens(b) ==
    (IF b.gp THEN GroupTokens(TRUE, b.lts, b.params) \o <<",">> ELSE <<>>)
    \o <<b.ty>>
    \o <<",", b.target, ",", b.field>>

\* the argument list deref_mut! hands to $crate::deref!
ForwardTokens(b) ==
    (IF b.gp THEN GroupTokens(TRUE, b.lts, b.params) \o <<",">> ELSE <<>>)
    \o <<b.ty>>
    \o GroupTokens(b.ga, b.lts2, b.params2)
    \o <<",", b.target, ",", b.field>>

\* the transcriber of macro_rules! deref on the bindings b
DerefTranscribe(b) ==
    Impl("Deref", GroupTokens(b.gp, b.lts, b.params), b.ty,
         GroupTokens(b.ga, b.lts2, b.params2), FALSE, b.target, "&self.", b.field)

DerefExpand(b) ==
    IF ~b.ok THEN Err("no rules expected the token", "invocation", 0)
    ELSE Ok(<<DerefTranscribe(b)>>)

\* macro_rules! deref
deref(toks) == DerefExpand(MatchInvocation(toks))

\* the impl ... DerefMut block of macro_rules! deref_mut on the bindings b
DerefMutTranscribe(b) ==
    Impl("DerefMut", GroupTokens(b.gp, b.lts, b.params), b.ty,
         GroupTokens(b.ga, b.lts2, b.params2), FALSE, "Self::Target", "&mut self.", b.field)

\* a deref_mut! transcriber without the inner deref! invocation
MutDerefMutEmit(b, read) ==
    IF ~read.ok THEN read ELSE Ok(<<DerefMutTranscribe(b)>>)

\* the transcriber of macro_rules! deref_mut: read is the expansion of the
\* inner $crate::deref!(...)
DerefMutEmit(b, read) ==
    IF ~read.ok THEN read ELSE Ok(read.tokens \o <<DerefMutTranscribe(b)>>)

DerefMutExpand(b) ==
    IF ~b.ok THEN Err("no rules expected the token", "invocation", 0)
    ELSE DerefMutEmit(b, deref(ForwardTokens(b)))

\* macro_rules! deref_mut
deref_mut(toks) == DerefMutExpand(MatchInvocation(toks))

(***************************************************************************)
(* The emitted accessors at run time: an object of the declared struct is  *)
(* a sequence of field values, one per declared field.                     *)
(***************************************************************************)
\* a value of type ty; a Hello is Hello { inner: v }
Value(ty, v) == [ty |-> ty, v |-> v]
ValuesOf(ty) == {Value(ty, n) : n \in 0..MaxVal}
NoValue == Value("", 0)
NoAccess == [pre |-> <<>>, w |-> NoValue, r |-> NoValue]

\* Hello derives DerefMut onto its inner i32 (hello.rs), so a reference to a
\* Hello coerces to a reference to an i32
Coerces(from, to) == from = "Hello" /\ to = "i32"

\* 1-based position of the field self.<field> names, 0 when there is none
FieldIndex(decl, field) ==
    LET hits == {i \in 1..Len(decl.fields.list) :
                    DerefFieldTokens(decl.fields.shape, decl.fields.list[i].ident, i - 1) = field}
    IN IF hits = {} THEN 0 ELSE CHOOSE i \in hits : TRUE

\* Self::Target of the generated code: the Target of the Deref implementation
TargetOf(impls) == impls[1].target

\* rustc accepts the emitted body when the field exists and a reference to it
\* is, or coerces to, a reference to Target
Compiles(decl, impls) ==
    /\ decl.data = "Struct"
    /\ \A k \in 1..Len(impls) :
          LET i == FieldIndex(decl, impls[k].field) IN
          /\ i # 0
          /\ \/ decl.fields.list[i].ty = TargetOf(impls)
             \/ Coerces(decl.fields.list[i].ty, TargetOf(impls))

\* a body that refers to the first field whatever the selected field is
MutAccessorPlace(decl, impls, k) ==
    [index |-> 1, through |-> decl.fields.list[1].ty # TargetOf(impls)]

\* the place the body (&self.field or &mut self.field) refers to, returned as
\* a reference to Target
AccessorPlace(decl, impls, k) ==
    LET i == FieldIndex(decl, impls[k].field) IN
    [index |-> i, through |-> decl.fields.list[i].ty # TargetOf(impls)]

\* *place = v
Store(o, place, v) ==
    IF place.through
    THEN [o EXCEPT ![place.index] = Value(@.ty, v.v)]
    ELSE [o EXCEPT ![place.index] = v]

\* *place
Load(o, place, target) ==
    IF place.through THEN Value(target, o[place.index].v) ELSE o[place.index]

HasImpl(impls, trait) == \E k \in 1..Len(impls) : impls[k].trait = trait
ImplOf(impls, trait) == CHOOSE k \in 1..Len(impls) : impls[k].trait = trait

(***************************************************************************)
(* The specification: one generator invocation on a drawn input.           *)
(***************************************************************************)
Init ==
    /\ pc = "start"
    /\ \/ IsDeriveInput(input) /\ invocation = <<>>
       \/ input = NoInput /\ IsInvocation(invocation)
    /\ out = NoOut
    /\ obj = <<>>
    /\ last = NoAccess

\* the helper attribute both derive macros register: attributes(auto_ref)
helper_attribute == "auto_ref"

\* lib.rs derive_deref
derive_deref ==
    /\ pc = "start"
    /\ input # NoInput
    /\ out' = impl_deref_trait(input, FALSE)
    /\ pc' = "derive_deref"
    /\ UNCHANGED <<input, invocation, obj, last>>

\* lib.rs derive_deref_mut
derive_deref_mut ==
    /\ pc = "start"
    /\ input # NoInput
    /\ out' = impl_deref_trait(input, TRUE)
    /\ pc' = "derive_deref_mut"
    /\ UNCHANGED <<input, invocation, obj, last>>

\* an expansion of deref!(...)
invoke_deref ==
    /\ pc = "start"
    /\ invocation # <<>>
    /\ out' = deref(invocation)
    /\ pc' = "deref"
    /\ UNCHANGED <<input, invocation, obj, last>>

\* an expansion of deref_mut!(...)
invoke_deref_mut ==
    /\ pc = "start"
    /\ invocation # <<>>
    /\ out' = deref_mut(invocation)
    /\ pc' = "deref_mut"
    /\ UNCHANGED <<input, invocation, obj, last>>

Next == derive_deref \/ derive_deref_mut \/ invoke_deref \/ invoke_deref_mut

Spec == Init /\ [][Next]_vars

(***************************************************************************)
(* The second specification: a generator runs on a struct declaration and  *)
(* the program then uses the emitted accessors on an object of the struct. *)
(***************************************************************************)
RunFieldToks == {FieldName[i] : i \in 1..MaxFields} \cup {Digits[i] : i \in 1..MaxFields}

\* inp is a non-generic struct declaration of 1..MaxFields fields of which only
\* field k carries the attributes marks
IsRunDecl(inp, k, marks) ==
    \E shape \in {"Named", "Unnamed"}, n \in 1..MaxFields :
        /\ k <= n
        /\ \E tys \in [1..n -> Types] :
              inp = [data |-> "Struct", ident |-> TypeName, generics |-> NoGenerics,
                     fields |-> [shape |-> shape,
                                 list |-> FieldListOf(shape, n, tys,
                                              [i \in 1..n |-> IF i = k THEN marks ELSE {}])]]

\* either an annotated struct for the derive macros, or a plain struct with a
\* deref!/deref_mut! invocation beside it
InitRun ==
    /\ pc = "start"
    /\ \/ /\ \E k \in 1..MaxFields, marks \in AttrSets : IsRunDecl(input, k, marks)
          /\ invocation = <<>>
       \/ /\ IsRunDecl(input, 1, {})
          /\ invocation \in {<<TypeName, ",", t, ",", f>> : t \in Types, f \in RunFieldToks}
    /\ out = NoOut
    /\ obj = <<>>
    /\ last = NoAccess

\* let mut x = MyType { ... }
construct ==
    /\ pc \in {"derive_deref", "derive_deref_mut", "deref", "deref_mut"}
    /\ out.ok
    /\ Compiles(input, out.tokens)
    /\ obj' \in {o \in [1..Len(input.fields.list) -> UNION {ValuesOf(t) : t \in Types}] :
                    \A i \in 1..Len(input.fields.list) : o[i].ty = input.fields.list[i].ty}
    /\ pc' = "live"
    /\ UNCHANGED <<input, invocation, out, last>>

\* *x = v, through DerefMut::deref_mut
deref_mut_assign ==
    /\ pc = "live"
    /\ HasImpl(out.tokens, "DerefMut")
    /\ \E v \in ValuesOf(TargetOf(out.tokens)) :
          /\ obj' = Store(obj, AccessorPlace(input, out.tokens, ImplOf(out.tokens, "DerefMut")), v)
          /\ last' = [pre |-> obj, w |-> v, r |-> NoValue]
    /\ pc' = "written"
    /\ UNCHANGED <<input, invocation, out>>

\* *x, through Deref::deref
deref_read ==
    /\ pc \in {"live", "written"}
    /\ HasImpl(out.tokens, "Deref")
    /\ last' = [last EXCEPT !.r = Load(obj, AccessorPlace(input, out.tokens,
                                                         ImplOf(out.tokens, "Deref")),
                                       TargetOf(out.tokens))]
    /\ pc' = IF pc = "written" THEN "read" ELSE "peeked"
    /\ UNCHANGED <<input, invocation, out, obj>>

NextRun ==
    \/ derive_deref \/ derive_deref_mut \/ invoke_deref \/ invoke_deref_mut
    \/ construct \/ deref_mut_assign \/ deref_read

SpecRun == InitRun /\ [][NextRun]_vars

(***************************************************************************)
(* Properties.                                                             *)
(***************************************************************************)
Derived == pc \in {"derive_deref", "derive_deref_mut"}
Expanded == pc \in {"deref", "deref_mut"}
MutableRequested == pc \in {"derive_deref_mut", "deref_mut"}
\* the attribute the entry point that ran looks for
Marker == IF pc = "derive_deref_mut" THEN "deref_mut" ELSE "deref"
FieldList == input.fields.list
HasFieldList == input.fields.shape \in {"Named", "Unnamed"}
Marked == {i \in 1..Len(FieldList) : Marker \in FieldList[i].attrs}
\* how the emitted body names the field at 1-based position i of the declaration
Selector(i) == IF input.fields.shape = "Named" THEN FieldList[i].ident ELSE Digits[i]

\* C1: a struct with a named or positional field list and exactly one marked
\* field is accepted; the read accessor's Target is the marked field's declared
\* type and its body is &self.<identifier>, or &self.<i> with i the 0-based
\* position of the field among all fields.
C1_SingleMarkedField ==
    (Derived /\ input.data = "Struct" /\ HasFieldList /\ Cardinality(Marked) = 1) =>
        /\ out.ok
        /\ \A i \in Marked :
              /\ out.tokens[1].trait = "Deref"
              /\ out.tokens[1].target = FieldList[i].ty
              /\ out.tokens[1].body = "&self."
              /\ out.tokens[1].field = Selector(i)

\* a positional struct whose second of three fields is the marked one, after a
\* first field of another type that carries another attribute
C1_Witness ==
    /\ Derived /\ out.ok
    /\ input.fields.shape = "Unnamed" /\ Len(FieldList) = 3
    /\ Marked = {2}
    /\ FieldList[1].attrs # {} /\ FieldList[1].ty # FieldList[2].ty
    /\ out.tokens[1].field = "1"

\* C2 as stated: every struct with no marked field, whatever its field list
\* shape, is rejected with the "Must have one field marked" diagnostic.
C2_ZeroMarkedAnyShape ==
    (Derived /\ input.data = "Struct" /\ Marked = {}) =>
        ~out.ok /\ out.msg = "Must have one field marked"

\* C2 amended: a struct with a named or positional field list (empty or not)
\* and no marked field is rejected with "Must have one field marked"; a unit
\* struct is rejected with "Unit structs are not supported".
C2_ZeroMarked ==
    (Derived /\ input.data = "Struct" /\ Marked = {}) =>
        /\ ~out.ok /\ out.tokens = <<>>
        /\ HasFieldList => (out.msg = "Must have one field marked" /\ out.span = "fields")
        /\ ~HasFieldList => out.msg = "Unit structs are not supported"

\* two named fields, both carrying attributes other than the marker
C2_Witness ==
    /\ Derived /\ input.data = "Struct" /\ input.fields.shape = "Named"
    /\ Len(FieldList) = 2 /\ Marked = {}
    /\ \A i \in 1..2 : FieldList[i].attrs # {}
    /\ out.msg = "Must have one field marked"

SecondMarked == CHOOSE i \in Marked : Cardinality({j \in Marked : j < i}) = 1

\* C3: a struct with two or more marked fields, named or positional, is
\* rejected with the "Only one field can be marked" diagnostic, whichever fields
\* are marked, and the error is attributed to the second marked field in
\* declaration order.
C3_SecondMarkedField ==
    (Derived /\ input.data = "Struct" /\ HasFieldList /\ Cardinality(Marked) >= 2) =>
        /\ ~out.ok /\ out.tokens = <<>>
        /\ out.msg = "Only one field can be marked"
        /\ out.span = "field"
        /\ out.at = SecondMarked - 1

\* three marked fields: the error is at the second, not the last
C3_Witness ==
    /\ Derived /\ input.data = "Struct" /\ Cardinality(Marked) = 3
    /\ ~out.ok /\ out.span = "field" /\ out.at = 1

\* C4 as stated: a declaration that is not a struct is rejected with the
\* "can only be used on structs" diagnostic and a struct with no fields with
\* the "Unit structs are not supported" diagnostic, whatever markers it has.
C4_ZeroFieldIsUnit ==
    Derived =>
        /\ input.data # "Struct" => (~out.ok /\ out.msg = "can only be used on structs")
        /\ (input.data = "Struct" /\ FieldList = <<>>) =>
              (~out.ok /\ out.msg = "Unit structs are not supported")

\* C4 amended: a non-struct is rejected with "can only be used on structs" and
\* a unit struct with "Unit structs are not supported", whatever markers the
\* declaration has; a struct with an empty named or positional field list is
\* rejected too, with "Must have one field marked".
C4_ShapeErrors ==
    Derived =>
        /\ input.data # "Struct" =>
              (~out.ok /\ out.tokens = <<>> /\ out.msg = "can only be used on structs"
               /\ out.span = "input")
        /\ (input.data = "Struct" /\ input.fields.shape = "Unit") =>
              (~out.ok /\ out.tokens = <<>> /\ out.msg = "Unit structs are not supported")
        /\ (input.data = "Struct" /\ HasFieldList /\ FieldList = <<>>) =>
              (~out.ok /\ out.tokens = <<>> /\ out.msg = "Must have one field marked")

\* an enum whose fields carry exactly one marker
C4_Witness ==
    /\ Derived /\ input.data = "Enum" /\ Cardinality(Marked) = 1
    /\ ~out.ok /\ out.msg = "can only be used on structs"

\* C5: on success a read-only request (derive Deref, deref!) emits exactly the
\* read implementation and a mutable request (derive DerefMut, deref_mut!)
\* exactly the read and the mutable one; a mutable implementation is never in
\* the output without a read implementation for the same type and field.
C5_MutableNeverAlone ==
    ((Derived \/ Expanded) /\ out.ok) =>
        /\ ~MutableRequested => (Len(out.tokens) = 1 /\ out.tokens[1].trait = "Deref")
        /\ MutableRequested =>
              (Len(out.tokens) = 2 /\ out.tokens[1].trait = "Deref"
               /\ out.tokens[2].trait = "DerefMut")
        /\ \A k \in 1..Len(out.tokens) :
              out.tokens[k].trait = "DerefMut" =>
                  \E j \in 1..Len(out.tokens) :
                      /\ out.tokens[j].trait = "Deref"
                      /\ out.tokens[j].name = out.tokens[k].name
                      /\ out.tokens[j].impl_generics = out.tokens[k].impl_generics
                      /\ out.tokens[j].ty_generics = out.tokens[k].ty_generics
                      /\ out.tokens[j].field = out.tokens[k].field

\* deref_mut! on a generic type, selecting a positional field
C5_Witness ==
    /\ pc = "deref_mut" /\ out.ok
    /\ out.tokens[2].impl_generics # <<>> /\ out.tokens[2].ty_generics # <<>>
    /\ out.tokens[2].field = "0"

AutoRef == {i \in 1..Len(FieldList) : helper_attribute \in FieldList[i].attrs}

\* C6: deriving Deref or DerefMut on a struct whose delegated field is marked
\* #[auto_ref], as the documentation of the derive macros instructs, succeeds
\* and generates the accessor implementation(s) for that field.
C6_AutoRefMarker ==
    (/\ Derived /\ input.data = "Struct" /\ HasFieldList
     /\ Cardinality(AutoRef) = 1
     /\ \A i \in 1..Len(FieldList) : i \notin AutoRef => FieldList[i].attrs = {}) =>
        /\ out.ok
        /\ Len(out.tokens) = IF MutableRequested THEN 2 ELSE 1
        /\ \A i \in AutoRef :
              out.tokens[1].target = FieldList[i].ty /\ out.tokens[1].field = Selector(i)

\* C7: impl_deref_trait returns either all the implementations requested (one
\* for is_mut = false, two for is_mut = true) or an error carrying none.
C7_NoPartialEmission ==
    Derived =>
        \/ /\ out.ok
           /\ Len(out.tokens) = IF MutableRequested THEN 2 ELSE 1
           /\ out.msg = ""
        \/ /\ ~out.ok
           /\ out.tokens = <<>>
           /\ out.msg \in {"can only be used on structs", "Unit structs are not supported",
                           "Must have one field marked", "Only one field can be marked",
                           "Field must have a name"}

\* a mutable request failing on a second marked field, after a first was taken
C7_Witness ==
    /\ pc = "derive_deref_mut" /\ ~out.ok
    /\ out.msg = "Only one field can be marked" /\ out.at = 2

\* C8: for every argument list deref_mut! accepts, the list it forwards to
\* deref! is accepted, and the read implementation in its expansion is the one
\* deref! emits when invoked directly with the same arguments.
C8_ForwardedReadAccessor ==
    (pc = "deref_mut" /\ MatchInvocation(invocation).ok) =>
        /\ MatchInvocation(ForwardTokens(MatchInvocation(invocation))).ok
        /\ out.ok
        /\ deref(invocation).ok
        /\ out.tokens[1] = deref(invocation).tokens[1]

\* an accepted invocation with lifetimes and a bounded parameter whose forwarded
\* argument list is not the list as written
C8_Witness ==
    /\ pc = "deref_mut" /\ out.ok
    /\ ForwardTokens(MatchInvocation(invocation)) # invocation
    /\ \E i \in 1..Len(out.tokens[1].impl_generics) : out.tokens[1].impl_generics[i] = ":"
    /\ \E i \in 1..Len(out.tokens[1].impl_generics) : out.tokens[1].impl_generics[i] = "'b"
    /\ out.tokens[1].ty_generics # <<>>

\* the struct deref!(MyType, t, f) is written for: one named field f of type t,
\* marked for the entry point that takes is_mut
StructFor(t, f, is_mut) ==
    [data |-> "Struct", ident |-> TypeName, generics |-> NoGenerics,
     fields |-> [shape |-> "Named",
                 list |-> <<[ident |-> f, ty |-> t,
                             attrs |-> {IF is_mut THEN "deref_mut" ELSE "deref"}]>>]]

\* C9: for a non-generic struct with a named field f of type T, deref!(Type, T,
\* f) emits the read accessor impl_deref_trait emits for the struct with f its
\* single marked field, and deref_mut!(Type, T, f) the two implementations
\* impl_deref_trait emits with is_mut = true.
C9_CrossSurface ==
    /\ (/\ Derived /\ out.ok /\ input.generics = NoGenerics
        /\ input.fields.shape = "Named") =>
           \A i \in Marked :
              out.tokens =
                 IF MutableRequested
                 THEN deref_mut(<<input.ident, ",", FieldList[i].ty, ",", FieldList[i].ident>>).tokens
                 ELSE deref(<<input.ident, ",", FieldList[i].ty, ",", FieldList[i].ident>>).tokens
    /\ (/\ Expanded /\ out.ok /\ Len(invocation) = 5
        /\ invocation[5] \in {FieldName[i] : i \in 1..Len(FieldName)}) =>
           out.tokens = impl_deref_trait(StructFor(invocation[3], invocation[5],
                                                   MutableRequested),
                                         MutableRequested).tokens

\* derive DerefMut on a non-generic struct of several named fields
C9_Witness ==
    /\ pc = "derive_deref_mut" /\ out.ok /\ input.generics = NoGenerics
    /\ input.fields.shape = "Named" /\ Len(FieldList) >= 2 /\ Marked = {2}

\* the field the emitted accessors select, 1-based
Selected ==
    CHOOSE i \in 1..Len(FieldList) : Selector(i) = out.tokens[1].field
Written == pc \in {"written", "read"}
OthersUnchanged == \A j \in 1..Len(obj) : j # Selected => obj[j] = last.pre[j]

\* C10 as stated: after a write through the generated mutable accessor, reading
\* the selected field directly observes exactly the value written, every other
\* field is unchanged, and a read through the generated read accessor returns
\* the same value as the direct field read.
C10_FieldIsWrittenValue ==
    Written =>
        /\ obj[Selected] = last.w
        /\ OthersUnchanged
        /\ pc = "read" => last.r = obj[Selected]

\* C10 amended: after a write through the generated mutable accessor every
\* other field is unchanged and a read through the generated read accessor
\* returns the value written. When the selected field's declared type is the
\* target type (always so on the annotation-based surface) the field is exactly
\* the value written; when deref_mut! names a target that the field reaches
\* through its own DerefMut (Hello2 of hello.rs) the field is the wrapper whose
\* inner value is the value written.
C10_WriteThenRead ==
    Written =>
        /\ FieldList[Selected].ty = TargetOf(out.tokens) => obj[Selected] = last.w
        /\ FieldList[Selected].ty # TargetOf(out.tokens) =>
              (/\ obj[Selected].ty = FieldList[Selected].ty
               /\ obj[Selected].v = last.w.v
               /\ invocation # <<>>)
        /\ OthersUnchanged
        /\ pc = "read" => last.r = last.w

\* a write that changes the second field of a struct of several fields, read
\* back through the read accessor
C10_Witness ==
    /\ pc = "read" /\ Len(obj) >= 2 /\ Selected = 2
    /\ last.w # last.pre[2] /\ obj[2] = last.w /\ last.r = last.w
====
